---- MODULE Spec2Model ----
(***************************************************************************)
(* A model of training/dm_resnet_train.py: the function run(), a linear    *)
(* pipeline (split, generators, validation preload, model creation,        *)
(* multi-GPU replication, compile, training loop with its callbacks,       *)
(* training report, optional final save).                                  *)
(*                                                                         *)
(* Numbers that are floats in the program are integers here: weights are   *)
(* counted in tenths, losses / AUCs / metrics are drawn from small ordered *)
(* integer sets, and val_size is either a fraction num/den or a count.     *)
(* A saved model file is modelled by the number of epochs the saved model  *)
(* had been trained for.                                                   *)
(***************************************************************************)
EXTENDS Integers, Sequences, FiniteSets, TLC

VARIABLES
    pc,                 \* position in run()
    exc,                \* "none", or the exception that ended run()
    args,               \* the keyword arguments of run() and the env variables
    meta,               \* what DMMetaManager returns: exam_labs, lab_list
    split,              \* [train, val]: index sets made by train_test_split
    val_size_,          \* run()'s local val_size_
    val_generator,      \* [batch_size] of the validation generator
    validation_set,     \* [loaded, lens]: lens[i] = len(validation_set[0][i-1])
    model,              \* [bound, builder, arch]: the local variable model
    parallel,           \* make_parallel was applied
    compiled,           \* model.compile was called
    callbacks,          \* the callbacks list given to fit_generator
    auc_checkpointer,   \* the arguments DMAucModelCheckpoint was built with
    fit_args,           \* the keyword arguments fit_generator was called with
    epoch,              \* fit_generator's epoch counter
    history,            \* hist.history, one record per finished epoch
    auc_log,            \* the AUC the checkpointer computed at each epoch
    early_stopping,     \* [wait, best, stop] of the EarlyStopping callback
    best_auc,           \* the checkpointer's best AUC so far
    stop_training,      \* model.stop_training
    best_model_file,    \* [written, state]: the file at best_model
    final_model_file,   \* [written, state]: the file at final_model
    report,             \* the printed training summary
    returned            \* run() returned hist

vars == << pc, exc, args, meta, split, val_size_, val_generator, validation_set,
           model, parallel, compiled, callbacks, auc_checkpointer, fit_args,
           epoch, history, auc_log, early_stopping, best_auc, stop_training,
           best_model_file, final_model_file, report, returned >>

----------------------------------------------------------------------------
(* Bounds of the model *)

MaxItems == 6
MaxEpoch == 3

(* Values drawn for the quantities the frameworks compute *)
Labels     == {0, 1}
LossVals   == 1 .. 2
AucVals    == 0 .. 2
\* (val_sensitivity, val_specificity) of an epoch: a model that calls every
\* case negative, one that calls every case positive, a perfect one
MetricPairs == { << 0, 1 >>, << 1, 0 >>, << 1, 1 >> }

\* np.Inf, the initial "best" of EarlyStopping: above every loss
Inf == 1 + CHOOSE m \in LossVals : \A l \in LossVals : l <= m

\* 1.0 in tenths: the weight of class 0
UnitWeight == 10

NoFile == [written |-> FALSE, state |-> 0]

----------------------------------------------------------------------------
(* Helpers *)

RECURSIVE SumOver(_, _)
SumOver(f, S) ==
    IF S = {} THEN 0
    ELSE LET x == CHOOSE y \in S : TRUE IN f[x] + SumOver(f, S \ {x})

SeqsUpTo(S, lo, hi) == UNION { [1 .. n -> S] : n \in lo .. hi }

----------------------------------------------------------------------------
(* train_test_split(..., test_size=val_size, stratify=key)                 *)

\* stratify=None: every item in one stratum
StratifyNone(labs) == [i \in DOMAIN labs |-> 0]
\* the array given as stratify=: meta_man.exam_labs(exam_list) or lab_list
StratifyKey(labs) == labs

\* the list that is split and its labels: exam list or image list
SplitLabels(multi_view, m) == IF multi_view THEN m.exam_labs ELSE m.lab_list

Classes(key) == { key[i] : i \in DOMAIN key }
Members(key, c) == { i \in DOMAIN key : key[i] = c }
ClassCounts(key) == [c \in Classes(key) |-> Cardinality(Members(key, c))]

\* n_test: ceil(test_size * n) for a float, test_size itself for an int
NTest(val_size, n) ==
    IF val_size.kind = "frac"
    THEN (val_size.num * n + val_size.den - 1) \div val_size.den
    ELSE val_size.num

\* the stratified splitter's argument checks (ValueError)
SplitRaises(key, val_size) ==
    LET n       == Len(key)
        n_test  == NTest(val_size, n)
        n_train == n - n_test
        counts  == ClassCounts(key)
        n_cls   == Cardinality(Classes(key))
    IN  \/ n = 0
        \/ n_test >= n
        \/ n_test <= 0
        \/ \E c \in Classes(key) : counts[c] < 2
        \/ n_train < n_cls
        \/ n_test < n_cls

\* the allocations of n_draws over the classes, proportional to counts:
\* floor of the exact share, the draws left over going to the classes
\* with the largest remainders (ties broken at random)
ApproximateMode(counts, n_draws) ==
    LET cls     == DOMAIN counts
        total   == SumOver(counts, cls)
        floored == [c \in cls |-> (n_draws * counts[c]) \div total]
        rem     == [c \in cls |-> (n_draws * counts[c]) % total]
        need    == n_draws - SumOver(floored, cls)
        tops    == { A \in SUBSET cls :
                        /\ Cardinality(A) = need
                        /\ \A a \in A : \A b \in cls \ A : rem[a] >= rem[b] }
    IN  { [c \in cls |-> floored[c] + (IF c \in A THEN 1 ELSE 0)] : A \in tops }

\* all subsets of S that take exactly k[c] members of every class c
Picks(key, S, k) ==
    { P \in SUBSET S :
        \A c \in DOMAIN k : Cardinality(P \cap Members(key, c)) = k[c] }

\* every split the shuffle can produce: per class, the first n_i members of
\* a permutation go to train and the next t_i to test
TrainTestSplit(key, val_size) ==
    LET n       == Len(key)
        n_test  == NTest(val_size, n)
        n_train == n - n_test
        counts  == ClassCounts(key)
    IN  UNION { UNION { UNION { { [train |-> tr, val |-> te] :
                                    te \in Picks(key, DOMAIN key \ tr, t_i) } :
                                tr \in Picks(key, DOMAIN key, n_i) } :
                        t_i \in ApproximateMode(
                                   [c \in DOMAIN counts |-> counts[c] - n_i[c]],
                                   n_test) } :
                n_i \in ApproximateMode(counts, n_train) }

\* val_size_ without the factor for the two views
ValSizeOneView(multi_view, val) == Cardinality(val)
\* val_size_: len(exam_val)*2 (L and R) or len(img_val)
ValSize(multi_view, val) ==
    IF multi_view THEN Cardinality(val) * 2 ELSE Cardinality(val)

----------------------------------------------------------------------------
(* Validation generator and the preloaded validation set                   *)

\* batch_size of the validation generator
ValGenBatchSize(load_val_ram, vsize, batch_size) ==
    IF load_val_ram THEN vsize ELSE batch_size

\* the size check with only the first view looked at
SizeCheckFirstView(multi_view, lens, vsize) ==
    IF ~multi_view /\ Len(lens) # vsize THEN "Exception"
    ELSE IF Len(lens) < 1 THEN "IndexError"
    ELSE IF lens[1] # vsize THEN "Exception"
    ELSE "none"
\* the if / elif after next(val_generator), evaluated as Python does:
\* lens is validation_set[0] seen through len(): Len(lens) is
\* len(validation_set[0]) and lens[i] is len(validation_set[0][i-1])
SizeCheck(multi_view, lens, vsize) ==
    IF ~multi_view /\ Len(lens) # vsize THEN "Exception"
    ELSE IF Len(lens) < 1 THEN "IndexError"
    ELSE IF lens[1] # vsize THEN "Exception"
    ELSE IF Len(lens) < 2 THEN "IndexError"
    ELSE IF lens[2] # vsize THEN "Exception"
    ELSE "none"

----------------------------------------------------------------------------
(* Model creation                                                          *)

NetMenu == { "resnet18", "resnet34", "resnet50", "dmresnet14", "dmresnet47rb5",
             "dmresnet56rb6", "dmresnet65rb7", "resnet101", "resnet152" }

Unbound == [bound |-> FALSE, builder |-> "-", arch |-> "-"]

Builder(multi_view) ==
    IF multi_view THEN "MultiViewResNetBuilder" ELSE "ResNetBuilder"

\* an if / elif chain that ends in a default architecture
BuildModelDefault(multi_view, net) ==
    [bound |-> TRUE, builder |-> Builder(multi_view),
     arch |-> IF net \in NetMenu THEN net ELSE "resnet50"]
\* the if / elif chain over net: no else branch, so model stays unassigned
BuildModel(multi_view, net) ==
    CASE net = "resnet18"      -> [bound |-> TRUE, builder |-> Builder(multi_view), arch |-> "resnet18"]
      [] net = "resnet34"      -> [bound |-> TRUE, builder |-> Builder(multi_view), arch |-> "resnet34"]
      [] net = "resnet50"      -> [bound |-> TRUE, builder |-> Builder(multi_view), arch |-> "resnet50"]
      [] net = "dmresnet14"    -> [bound |-> TRUE, builder |-> Builder(multi_view), arch |-> "dmresnet14"]
      [] net = "dmresnet47rb5" -> [bound |-> TRUE, builder |-> Builder(multi_view), arch |-> "dmresnet47rb5"]
      [] net = "dmresnet56rb6" -> [bound |-> TRUE, builder |-> Builder(multi_view), arch |-> "dmresnet56rb6"]
      [] net = "dmresnet65rb7" -> [bound |-> TRUE, builder |-> Builder(multi_view), arch |-> "dmresnet65rb7"]
      [] net = "resnet101"     -> [bound |-> TRUE, builder |-> Builder(multi_view), arch |-> "resnet101"]
      [] net = "resnet152"     -> [bound |-> TRUE, builder |-> Builder(multi_view), arch |-> "resnet152"]
      [] OTHER                 -> Unbound

\* load_model(resume_from, ...)
LoadedModel == [bound |-> TRUE, builder |-> "load_model", arch |-> "file"]

----------------------------------------------------------------------------
(* Training: callbacks, fit_generator, report                              *)

\* the callbacks list without the checkpointer
CallbackListNoCheckpoint == << "reduce_lr", "early_stopping" >>
\* callbacks=[reduce_lr, early_stopping, auc_checkpointer]
CallbackList == << "reduce_lr", "early_stopping", "auc_checkpointer" >>

Has(cbs, name) == \E i \in DOMAIN cbs : cbs[i] = name

\* DMAucModelCheckpoint(best_model, validation_set, batch_size=batch_size)
\* or DMAucModelCheckpoint(best_model, val_generator, nb_test_samples=val_size_)
AucCheckpointer(load_val_ram, best_model, batch_size, vsize) ==
    IF load_val_ram
    THEN [filepath |-> best_model, test_data |-> "validation_set",
          batch_size |-> batch_size, nb_test_samples |-> 0]
    ELSE [filepath |-> best_model, test_data |-> "val_generator",
          batch_size |-> 0, nb_test_samples |-> vsize]

\* a class-weight dictionary with the two weights exchanged
ClassWeightSwapped(pos_cls_weight) == (0 :> pos_cls_weight) @@ (1 :> UnitWeight)
\* class_weight={ 0: 1.0, 1: pos_cls_weight }
ClassWeight(pos_cls_weight) == (0 :> UnitWeight) @@ (1 :> pos_cls_weight)

\* EarlyStopping.on_epoch_end (monitor val_loss, mode min, min_delta 0):
\* the wait counter is compared with the patience before it is incremented
EarlyStoppingOnEpochEnd(es, current, patience) ==
    IF current < es.best
    THEN [wait |-> 0, best |-> current, stop |-> FALSE]
    ELSE [wait |-> es.wait + 1, best |-> es.best, stop |-> es.wait >= patience]

\* DMAucModelCheckpoint.on_epoch_end: save when the AUC is the best so far
AucImproved(auc, best) == auc > best

\* the last index of the minimum
LastLoc(locs) == CHOOSE i \in locs : \A j \in locs : j <= i
\* min_loss_locs[0]: np.where lists the indices in ascending order
FirstLoc(locs) == CHOOSE i \in locs : \A j \in locs : i <= j

\* np.where(val_loss == min(val_loss)): 0-based indices
MinLossLocs(h) ==
    LET lo == CHOOSE m \in { h[i].val_loss : i \in DOMAIN h } :
                  \A i \in DOMAIN h : m <= h[i].val_loss
    IN  { i - 1 : i \in { j \in DOMAIN h : h[j].val_loss = lo } }

\* the training summary
TrainingReport(h) ==
    LET loc == FirstLoc(MinLossLocs(h))
    IN  [printed |-> TRUE,
         epoch |-> loc + 1,
         best_val_loss |-> h[loc + 1].val_loss,
         best_val_sensitivity |-> h[loc + 1].val_sensitivity,
         best_val_specificity |-> h[loc + 1].val_specificity]

NoReport == [printed |-> FALSE, epoch |-> 0, best_val_loss |-> 0,
             best_val_sensitivity |-> 0, best_val_specificity |-> 0]

\* the final model is saved whatever final_model is
SavesFinalAlways(final_model) == TRUE
\* if final_model != "NOSAVE"
SavesFinal(final_model) == final_model # "NOSAVE"

----------------------------------------------------------------------------
(* The inputs of run()                                                     *)

BaseLabs == << 0, 0, 1, 1 >>

BaseArgs ==
    [multi_view     |-> FALSE,
     load_val_ram   |-> FALSE,
     val_size       |-> [kind |-> "frac", num |-> 1, den |-> 2],
     batch_size     |-> 2,
     img_rows       |-> 3,
     nb_epoch       |-> 1,
     es_patience    |-> 1,
     pos_cls_weight |-> UnitWeight,
     resume_from    |-> "None",
     net            |-> "resnet50",
     gpu_count      |-> 1,
     best_model     |-> "best.h5",
     final_model    |-> "NOSAVE"]

\* val_size: the default .2, one half, or an absolute count
ValSizes == { [kind |-> "frac", num |-> 1, den |-> 5],
              [kind |-> "frac", num |-> 1, den |-> 2],
              [kind |-> "count", num |-> 2, den |-> 1] }

Nets == NetMenu \cup { "vgg16", "" }

\* label arrays: a zeros followed by b ones (the split shuffles the list, so
\* the order in which the labels come does not matter to it)
LabLists ==
    { [i \in 1 .. (a + b) |-> IF i <= a THEN 0 ELSE 1] :
        a \in 0 .. MaxItems, b \in 0 .. MaxItems } \cap SeqsUpTo(Labels, 2, MaxItems)

\* the data and the mode vary
DataArgs ==
    { << [BaseArgs EXCEPT !.multi_view = mv, !.load_val_ram = lvr, !.val_size = vs],
         IF mv THEN [exam_labs |-> labs, lab_list |-> BaseLabs]
               ELSE [exam_labs |-> BaseLabs, lab_list |-> labs] >> :
        mv \in BOOLEAN, lvr \in BOOLEAN, vs \in ValSizes, labs \in LabLists }

\* the model selection varies
ModelArgs ==
    { << [BaseArgs EXCEPT !.multi_view = mv, !.resume_from = rf, !.net = nt,
                          !.gpu_count = g, !.pos_cls_weight = w],
         [exam_labs |-> BaseLabs, lab_list |-> BaseLabs] >> :
        mv \in BOOLEAN, rf \in { "None", "resume.h5" }, nt \in Nets,
        g \in 1 .. 2, w \in { 0, UnitWeight, 25 } }

\* the training loop varies
TrainArgs ==
    { << [BaseArgs EXCEPT !.nb_epoch = ne, !.es_patience = p],
         [exam_labs |-> BaseLabs, lab_list |-> BaseLabs] >> :
        ne \in 0 .. MaxEpoch, p \in 0 .. 1 }

\* the final save varies
SaveArgs ==
    { << [BaseArgs EXCEPT !.nb_epoch = ne, !.final_model = fm, !.load_val_ram = lvr],
         [exam_labs |-> BaseLabs, lab_list |-> BaseLabs] >> :
        ne \in 0 .. 2, fm \in { "NOSAVE", "final.h5" }, lvr \in BOOLEAN }

Init ==
    /\ \E a \in DataArgs \cup ModelArgs \cup TrainArgs \cup SaveArgs :
          /\ args = a[1]
          /\ meta = a[2]
    /\ pc = "split"
    /\ exc = "none"
    /\ split = [train |-> {}, val |-> {}]
    /\ val_size_ = 0
    /\ val_generator = [batch_size |-> 0]
    /\ validation_set = [loaded |-> FALSE, lens |-> << >>]
    /\ model = Unbound
    /\ parallel = FALSE
    /\ compiled = FALSE
    /\ callbacks = << >>
    /\ auc_checkpointer = [filepath |-> "", test_data |-> "",
                           batch_size |-> 0, nb_test_samples |-> 0]
    /\ fit_args = [called |-> FALSE, nb_epoch |-> 0, class_weight |-> << >>,
                   validation_data |-> "", nb_val_samples |-> 0]
    /\ epoch = 0
    /\ history = << >>
    /\ auc_log = << >>
    /\ early_stopping = [wait |-> 0, best |-> Inf, stop |-> FALSE]
    /\ best_auc = 0
    /\ stop_training = FALSE
    /\ best_model_file = NoFile
    /\ final_model_file = NoFile
    /\ report = NoReport
    /\ returned = FALSE

----------------------------------------------------------------------------
(* The steps of run()                                                      *)

Raise(e) ==
    /\ pc' = "failed"
    /\ exc' = e

\* train_test_split and val_size_
Split ==
    /\ pc = "split"
    /\ LET key == StratifyKey(SplitLabels(args.multi_view, meta))
       IN  /\ ~SplitRaises(key, args.val_size)
           /\ \E s \in TrainTestSplit(key, args.val_size) :
                 /\ split' = s
                 /\ val_size_' = ValSize(args.multi_view, s.val)
    /\ pc' = "generators"
    /\ UNCHANGED << exc, args, meta, val_generator, validation_set, model,
                    parallel, compiled, callbacks, auc_checkpointer, fit_args,
                    epoch, history, auc_log, early_stopping, best_auc,
                    stop_training, best_model_file, final_model_file, report,
                    returned >>

\* train_test_split rejects the list
SplitFails ==
    /\ pc = "split"
    /\ SplitRaises(StratifyKey(SplitLabels(args.multi_view, meta)), args.val_size)
    /\ Raise("ValueError")
    /\ UNCHANGED << args, meta, split, val_size_, val_generator, validation_set,
                    model, parallel, compiled, callbacks, auc_checkpointer,
                    fit_args, epoch, history, auc_log, early_stopping, best_auc,
                    stop_training, best_model_file, final_model_file, report,
                    returned >>

\* the image generator and the train / validation flows
CreateGenerators ==
    /\ pc = "generators"
    /\ val_generator' = [batch_size |->
            ValGenBatchSize(args.load_val_ram, val_size_, args.batch_size)]
    /\ pc' = "load_val"
    /\ UNCHANGED << exc, args, meta, split, val_size_, validation_set, model,
                    parallel, compiled, callbacks, auc_checkpointer, fit_args,
                    epoch, history, auc_log, early_stopping, best_auc,
                    stop_training, best_model_file, final_model_file, report,
                    returned >>

\* the batches next(val_generator) may hand back: in single-view mode n
\* images whose first axis has length d, in multi-view mode two view arrays
Near(k) == { k - 1, k, k + 1 } \cap Nat
Batches(multi_view, vsize, img_rows) ==
    IF multi_view
    THEN { << a, b >> : a \in Near(vsize), b \in Near(vsize) }
    ELSE { [i \in 1 .. n |-> d] : n \in Near(vsize), d \in { 1, img_rows } }

\* "Load validation set into RAM": skipped, or loaded and of the right size
LoadValRam ==
    /\ pc = "load_val"
    /\ \/ /\ ~args.load_val_ram
          /\ UNCHANGED validation_set
       \/ /\ args.load_val_ram
          /\ \E lens \in Batches(args.multi_view, val_generator.batch_size, args.img_rows) :
                /\ SizeCheck(args.multi_view, lens, val_size_) = "none"
                /\ validation_set' = [loaded |-> TRUE, lens |-> lens]
    /\ pc' = "create_model"
    /\ UNCHANGED << exc, args, meta, split, val_size_, val_generator, model,
                    parallel, compiled, callbacks, auc_checkpointer, fit_args,
                    epoch, history, auc_log, early_stopping, best_auc,
                    stop_training, best_model_file, final_model_file, report,
                    returned >>

\* the size check raises
LoadValRamRaises ==
    /\ pc = "load_val"
    /\ args.load_val_ram
    /\ \E lens \in Batches(args.multi_view, val_generator.batch_size, args.img_rows) :
          /\ SizeCheck(args.multi_view, lens, val_size_) # "none"
          /\ validation_set' = [loaded |-> TRUE, lens |-> lens]
          /\ Raise(SizeCheck(args.multi_view, lens, val_size_))
    /\ UNCHANGED << args, meta, split, val_size_, val_generator, model,
                    parallel, compiled, callbacks, auc_checkpointer, fit_args,
                    epoch, history, auc_log, early_stopping, best_auc,
                    stop_training, best_model_file, final_model_file, report,
                    returned >>

\* "Create model": load_model, or the builder chosen by net
CreateModel ==
    /\ pc = "create_model"
    /\ model' = IF args.resume_from # "None" THEN LoadedModel
                ELSE BuildModel(args.multi_view, args.net)
    /\ pc' = "parallel"
    /\ UNCHANGED << exc, args, meta, split, val_size_, val_generator,
                    validation_set, parallel, compiled, callbacks,
                    auc_checkpointer, fit_args, epoch, history, auc_log,
                    early_stopping, best_auc, stop_training, best_model_file,
                    final_model_file, report, returned >>

\* if gpu_count > 1: model = make_parallel(model, gpu_count)
MakeParallel ==
    /\ pc = "parallel"
    /\ args.gpu_count > 1 => model.bound
    /\ parallel' = (args.gpu_count > 1)
    /\ pc' = "compile"
    /\ UNCHANGED << exc, args, meta, split, val_size_, val_generator,
                    validation_set, model, compiled, callbacks,
                    auc_checkpointer, fit_args, epoch, history, auc_log,
                    early_stopping, best_auc, stop_training, best_model_file,
                    final_model_file, report, returned >>

\* make_parallel(model, ...) reads a local that was never assigned
MakeParallelFails ==
    /\ pc = "parallel"
    /\ args.gpu_count > 1
    /\ ~model.bound
    /\ Raise("UnboundLocalError")
    /\ UNCHANGED << args, meta, split, val_size_, val_generator, validation_set,
                    model, parallel, compiled, callbacks, auc_checkpointer,
                    fit_args, epoch, history, auc_log, early_stopping, best_auc,
                    stop_training, best_model_file, final_model_file, report,
                    returned >>

\* model.compile, then the three callbacks are constructed
Compile ==
    /\ pc = "compile"
    /\ model.bound
    /\ compiled' = TRUE
    /\ callbacks' = CallbackList
    /\ auc_checkpointer' = AucCheckpointer(args.load_val_ram, args.best_model,
                                           args.batch_size, val_size_)
    /\ pc' = "fit"
    /\ UNCHANGED << exc, args, meta, split, val_size_, val_generator,
                    validation_set, model, parallel, fit_args, epoch, history,
                    auc_log, early_stopping, best_auc, stop_training,
                    best_model_file, final_model_file, report, returned >>

\* model.compile on a local that was never assigned
CompileFails ==
    /\ pc = "compile"
    /\ ~model.bound
    /\ Raise("UnboundLocalError")
    /\ UNCHANGED << args, meta, split, val_size_, val_generator, validation_set,
                    model, parallel, compiled, callbacks, auc_checkpointer,
                    fit_args, epoch, history, auc_log, early_stopping, best_auc,
                    stop_training, best_model_file, final_model_file, report,
                    returned >>

\* the call of model.fit_generator: its arguments, and on_train_begin
FitGenerator ==
    /\ pc = "fit"
    /\ ~fit_args.called
    /\ fit_args' = [called |-> TRUE,
                    nb_epoch |-> args.nb_epoch,
                    class_weight |-> ClassWeight(args.pos_cls_weight),
                    validation_data |-> IF args.load_val_ram THEN "validation_set"
                                        ELSE "val_generator",
                    nb_val_samples |-> val_size_]
    /\ epoch' = 0
    /\ history' = << >>
    /\ early_stopping' = [wait |-> 0, best |-> Inf, stop |-> FALSE]
    /\ stop_training' = FALSE
    /\ UNCHANGED << pc, exc, args, meta, split, val_size_, val_generator,
                    validation_set, model, parallel, compiled, callbacks,
                    auc_checkpointer, auc_log, best_auc, best_model_file,
                    final_model_file, report, returned >>

\* one epoch of the loop: training, validation, then on_epoch_end of the
\* callbacks in list order and of the History callback
Epoch ==
    /\ pc = "fit"
    /\ fit_args.called
    /\ epoch < fit_args.nb_epoch
    /\ ~stop_training
    /\ \E loss \in LossVals, m \in MetricPairs, auc \in AucVals :
          LET sens == m[1]
              spec == m[2]
              es == IF Has(callbacks, "early_stopping")
                    THEN EarlyStoppingOnEpochEnd(early_stopping, loss, args.es_patience)
                    ELSE early_stopping
              save == Has(callbacks, "auc_checkpointer") /\ AucImproved(auc, best_auc)
          IN  /\ early_stopping' = es
              /\ stop_training' = es.stop
              /\ auc_log' = Append(auc_log, auc)
              /\ best_auc' = IF save THEN auc ELSE best_auc
              /\ best_model_file' = IF save
                                    THEN [written |-> TRUE, state |-> epoch + 1]
                                    ELSE best_model_file
              /\ history' = Append(history, [val_loss |-> loss,
                                             val_sensitivity |-> sens,
                                             val_specificity |-> spec])
    /\ epoch' = epoch + 1
    /\ UNCHANGED << pc, exc, args, meta, split, val_size_, val_generator,
                    validation_set, model, parallel, compiled, callbacks,
                    auc_checkpointer, fit_args, final_model_file, report,
                    returned >>

\* the loop ends: nb_epoch epochs were run, or a callback asked to stop
FitReturns ==
    /\ pc = "fit"
    /\ fit_args.called
    /\ epoch >= fit_args.nb_epoch \/ stop_training
    /\ pc' = "report"
    /\ UNCHANGED << exc, args, meta, split, val_size_, val_generator,
                    validation_set, model, parallel, compiled, callbacks,
                    auc_checkpointer, fit_args, epoch, history, auc_log,
                    early_stopping, best_auc, stop_training, best_model_file,
                    final_model_file, report, returned >>

\* "Training report"
Report ==
    /\ pc = "report"
    /\ history # << >>
    /\ report' = TrainingReport(history)
    /\ pc' = "save"
    /\ UNCHANGED << exc, args, meta, split, val_size_, val_generator,
                    validation_set, model, parallel, compiled, callbacks,
                    auc_checkpointer, fit_args, epoch, history, auc_log,
                    early_stopping, best_auc, stop_training, best_model_file,
                    final_model_file, returned >>

\* hist.history has no 'val_loss' when no epoch was run
ReportFails ==
    /\ pc = "report"
    /\ history = << >>
    /\ Raise("KeyError")
    /\ UNCHANGED << args, meta, split, val_size_, val_generator, validation_set,
                    model, parallel, compiled, callbacks, auc_checkpointer,
                    fit_args, epoch, history, auc_log, early_stopping, best_auc,
                    stop_training, best_model_file, final_model_file, report,
                    returned >>

\* the optional final save, and return hist
SaveAndReturn ==
    /\ pc = "save"
    /\ final_model_file' = IF SavesFinal(args.final_model)
                           THEN [written |-> TRUE, state |-> epoch]
                           ELSE final_model_file
    /\ returned' = TRUE
    /\ pc' = "returned"
    /\ UNCHANGED << exc, args, meta, split, val_size_, val_generator,
                    validation_set, model, parallel, compiled, callbacks,
                    auc_checkpointer, fit_args, epoch, history, auc_log,
                    early_stopping, best_auc, stop_training, best_model_file,
                    report >>

Next ==
    \/ Split
    \/ SplitFails
    \/ CreateGenerators
    \/ LoadValRam
    \/ LoadValRamRaises
    \/ CreateModel
    \/ MakeParallel
    \/ MakeParallelFails
    \/ Compile
    \/ CompileFails
    \/ FitGenerator
    \/ Epoch
    \/ FitReturns
    \/ Report
    \/ ReportFails
    \/ SaveAndReturn

Spec == Init /\ [][Next]_vars

----------------------------------------------------------------------------
(* Properties                                                              *)

\* the labels of the list that was split
SplitLabs == SplitLabels(args.multi_view, meta)

\* train_test_split returned
SplitDone == pc # "split" /\ ~(pc = "failed" /\ exc = "ValueError")

\* the generators were created
GeneratorsDone == SplitDone /\ pc # "generators"

\* run() got past "Create model"
CreateDone ==
    \/ pc \in { "parallel", "compile", "fit", "report", "save", "returned" }
    \/ pc = "failed" /\ exc \in { "UnboundLocalError", "KeyError" }

\* the preloaded batch does not have val_size_ items (per view)
BatchMismatch ==
    IF args.multi_view
    THEN \E i \in DOMAIN validation_set.lens : validation_set.lens[i] # val_size_
    ELSE Len(validation_set.lens) # val_size_

NothingTrained ==
    /\ ~model.bound
    /\ ~parallel
    /\ ~compiled
    /\ ~fit_args.called
    /\ history = << >>
    /\ ~best_model_file.written
    /\ ~final_model_file.written

\* C1: with load_val_ram, a preloaded validation batch whose count is not
\* val_size_ (single view: len(validation_set[0]); multi view: the length of
\* either view array) makes run() raise Exception before any model is
\* created, compiled or trained.
C1_SizeMismatchRaises ==
    (args.load_val_ram /\ validation_set.loaded /\ BatchMismatch)
        => (pc = "failed" /\ exc = "Exception" /\ NothingTrained)

\* the second view alone is of the wrong length, and run() has raised
C1_Witness ==
    /\ args.multi_view
    /\ validation_set.loaded
    /\ validation_set.lens[1] = val_size_
    /\ validation_set.lens[2] # val_size_
    /\ exc = "Exception"

\* C2 (as claimed): the state in the best_model file is the state of the
\* epoch of minimum val_loss, the epoch the summary reports.
C2_BestIsMinLoss ==
    (report.printed /\ best_model_file.written)
        => best_model_file.state = report.epoch

\* C2 (amended): the state in the best_model file is the state of an epoch
\* whose validation AUC is the maximum over the epochs run, and the file is
\* there as soon as an epoch's AUC was above the checkpointer's initial best.
C2_BestIsMaxAuc ==
    /\ best_model_file.written =>
          /\ best_model_file.state \in DOMAIN auc_log
          /\ \A i \in DOMAIN auc_log : auc_log[i] <= auc_log[best_model_file.state]
    /\ (\E i \in DOMAIN auc_log : auc_log[i] > 0) => best_model_file.written

\* the file was overwritten at a later epoch, which is not the reported one
C2_Witness ==
    /\ report.printed
    /\ best_model_file.written
    /\ best_model_file.state > 1
    /\ auc_log[1] > 0
    /\ best_model_file.state # report.epoch

\* C3: val_size_ is twice the number of validation exams in multi-view mode
\* and the number of validation images otherwise; it is what fit_generator
\* gets as nb_val_samples, what the checkpointer gets as nb_test_samples
\* without load_val_ram, and the validation generator's batch_size with it.
C3_ValSizeWiring ==
    /\ SplitDone =>
          val_size_ = IF args.multi_view THEN 2 * Cardinality(split.val)
                      ELSE Cardinality(split.val)
    /\ (GeneratorsDone /\ args.load_val_ram) => val_generator.batch_size = val_size_
    /\ (compiled /\ ~args.load_val_ram) => auc_checkpointer.nb_test_samples = val_size_
    /\ fit_args.called => fit_args.nb_val_samples = val_size_

\* a multi-view run with three validation exams reached fit_generator
C3_Witness ==
    /\ args.multi_view
    /\ ~args.load_val_ram
    /\ fit_args.called
    /\ Cardinality(split.val) = 3
    /\ fit_args.nb_val_samples = 6

\* the number of trailing epochs that did not improve on the best val_loss
Stale(h) ==
    LET improved == { i \in DOMAIN h : \A j \in 1 .. (i - 1) : h[i].val_loss < h[j].val_loss }
    IN  IF h = << >> THEN 0
        ELSE Len(h) - (CHOOSE i \in improved : \A j \in improved : j <= i)

\* C4 (as claimed): the loop runs at most nb_epoch epochs, does not go on
\* once val_loss has failed to improve for more than es_patience epochs, and
\* once it has ended run() reaches the report and returns the history.
C4_LoopEndsAndReturns ==
    /\ epoch <= args.nb_epoch
    /\ (pc = "fit" /\ fit_args.called /\ ~stop_training) => Stale(history) <= args.es_patience
    /\ (fit_args.called /\ pc # "fit") => (exc = "none" /\ pc \in { "report", "save", "returned" })
    /\ pc = "returned" => (report.printed /\ returned)

\* C5: the class_weight dictionary given to fit_generator has exactly the
\* keys 0 and 1, class 0 weighted 1.0 and class 1 weighted pos_cls_weight.
C5_ClassWeight ==
    fit_args.called =>
        /\ DOMAIN fit_args.class_weight = { 0, 1 }
        /\ fit_args.class_weight[0] = UnitWeight
        /\ fit_args.class_weight[1] = args.pos_cls_weight

\* fit_generator was called with a positive-class weight other than 1.0
C5_Witness ==
    /\ fit_args.called
    /\ args.pos_cls_weight = 25
    /\ fit_args.class_weight[1] = 25

\* the training loop has ended
LoopEnded == fit_args.called /\ (epoch >= fit_args.nb_epoch \/ stop_training)

\* C6: the final-model file is written only when final_model is not
\* "NOSAVE", and only after the loop has ended and the summary was computed;
\* a run that returns has written it exactly when final_model is not
\* "NOSAVE"; with "NOSAVE" it is never written.
C6_FinalSave ==
    /\ final_model_file.written =>
          /\ args.final_model # "NOSAVE"
          /\ LoopEnded
          /\ report.printed
          /\ pc = "returned"
    /\ pc = "returned" => (final_model_file.written <=> args.final_model # "NOSAVE")
    /\ args.final_model = "NOSAVE" => ~final_model_file.written

\* a run with a final_model path returned and wrote the trained model
C6_Witness ==
    /\ pc = "returned"
    /\ args.final_model = "final.h5"
    /\ final_model_file.written
    /\ final_model_file.state = 2

\* the members of class c in the index set P, counted on the true labels
CountIn(P, c) == Cardinality({ i \in P : SplitLabs[i] = c })

\* the share of class c in part P is within one item of its share in the list
WithinOneItem(P, c) ==
    LET n    == Len(SplitLabs)
        diff == n * CountIn(P, c) - Cardinality(P) * CountIn(DOMAIN SplitLabs, c)
    IN  diff <= n /\ -diff <= n

\* C7: the two parts of the split are disjoint, cover the list, and hold
\* every label in its proportion in the whole list, to within one item
\* (stated where train_test_split returns: split is never assigned again).
C7_StratifiedSplit ==
    pc = "generators" =>
        /\ split.train \cap split.val = {}
        /\ split.train \cup split.val = DOMAIN SplitLabs
        /\ \A c \in Labels : WithinOneItem(split.train, c) /\ WithinOneItem(split.val, c)

\* an exam list of three and three was split in halves, two to one
C7_Witness ==
    /\ SplitDone
    /\ args.multi_view
    /\ CountIn(DOMAIN SplitLabs, 0) = 3
    /\ CountIn(DOMAIN SplitLabs, 1) = 3
    /\ CountIn(split.val, 0) = 2
    /\ CountIn(split.val, 1) = 1

\* C8 (as claimed): in single-view mode with load_val_ram, a preloaded batch
\* of exactly val_size_ images raises nothing at the size check.
C8_MatchingBatchPasses ==
    (~args.multi_view /\ args.load_val_ram /\ validation_set.loaded
        /\ Len(validation_set.lens) = val_size_)
        => (exc = "none" /\ pc # "failed")

\* C9: without resume_from a model is built exactly for the nets of the
\* menu; for any other net no model is bound and run() fails at the first
\* use of the model (make_parallel, else compile) with nothing trained or
\* written; with resume_from the model is loaded whatever net is.
C9_NetMenu ==
    CreateDone =>
        /\ (args.resume_from = "None" /\ args.net \in NetMenu) =>
              (model.bound /\ model.arch = args.net)
        /\ (args.resume_from = "None" /\ args.net \notin NetMenu) =>
              /\ NothingTrained
              /\ \/ pc = "parallel"
                 \/ pc = "compile" /\ args.gpu_count <= 1
                 \/ pc = "failed" /\ exc = "UnboundLocalError"
        /\ args.resume_from # "None" => model = LoadedModel

\* a net outside the menu failed at make_parallel
C9_Witness ==
    /\ args.resume_from = "None"
    /\ args.net = "vgg16"
    /\ args.gpu_count = 2
    /\ pc = "failed"
    /\ exc = "UnboundLocalError"

\* C10: the summary reports, numbered from 1, the earliest epoch at which
\* val_loss is minimal, with the loss, sensitivity and specificity of that
\* same epoch.
C10_ReportEarliestMin ==
    report.printed =>
        /\ report.epoch \in DOMAIN history
        /\ \A i \in DOMAIN history : history[report.epoch].val_loss <= history[i].val_loss
        /\ \A i \in 1 .. (report.epoch - 1) :
              history[report.epoch].val_loss < history[i].val_loss
        /\ report.best_val_loss = history[report.epoch].val_loss
        /\ report.best_val_sensitivity = history[report.epoch].val_sensitivity
        /\ report.best_val_specificity = history[report.epoch].val_specificity

\* two epochs tie for the minimum and differ in their metrics
C10_Witness ==
    /\ report.printed
    /\ report.epoch = 2
    /\ Len(history) = 3
    /\ history[3].val_loss = history[2].val_loss
    /\ history[3].val_sensitivity # history[2].val_sensitivity
    /\ history[3].val_specificity # history[2].val_specificity

====
